---- MODULE Spec2Model ----
(***************************************************************************)
(* echopype: the sonar-model registry (core.py) and the AZFP calibration   *)
(* (process/process_azfp.py), as a state machine of API calls.             *)
(*                                                                         *)
(* A state records the last call made, its outcome (return value or the    *)
(* exception raised), the warnings it logged, the calls it made to the     *)
(* external collaborators, the dataset it annotated as the call left it,   *)
(* and the EchoData handle the calibration works on.  Numbers are exact    *)
(* rationals <<numerator, denominator>>.                                   *)
(***************************************************************************)
EXTENDS Integers, Sequences, FiniteSets, TLC

VARIABLES call, result, warnings, delegated, saved, ed, open_vend, cal_ds

vars == <<call, result, warnings, delegated, saved, ed, open_vend, cal_ds>>

----------------------------------------------------------------------------
(* Bounds of the model.                                                    *)

\* channels (frequencies) of a raw record
NumChannels == 2
\* pings of a raw record
NumPings == 2
\* vendor datasets that may be left open before the model stops opening more
MaxOpen == 1

Channels == 1..NumChannels
Pings == 1..NumPings

----------------------------------------------------------------------------
(* Exact rational arithmetic: floating point without the rounding.         *)

RECURSIVE GCD(_, _)
GCD(a, b) == IF b = 0 THEN a ELSE GCD(b, a % b)

AbsInt(a) == IF a < 0 THEN -a ELSE a

Reduce(n, d) ==
    LET g == GCD(AbsInt(n), AbsInt(d))
        s == IF d < 0 THEN -1 ELSE 1
    IN  <<(s * n) \div g, (s * d) \div g>>

Rat(n) == <<n, 1>>
Frac(n, d) == Reduce(n, d)
RAdd(x, y) == Reduce(x[1] * y[2] + y[1] * x[2], x[2] * y[2])
RNeg(x) == <<-x[1], x[2]>>
RSub(x, y) == RAdd(x, RNeg(y))
RMul(x, y) ==
    LET a == Reduce(x[1], y[2])
        b == Reduce(y[1], x[2])
    IN  Reduce(a[1] * b[1], a[2] * b[2])
RDiv(x, y) == RMul(x, Reduce(y[2], y[1]))

----------------------------------------------------------------------------
(* Assignment to a local name: the right-hand side is evaluated once, then *)
(* the statements that follow read the value.                              *)

Let(e, Body(_)) == CHOOSE v \in {Body(x) : x \in {e}} : TRUE

----------------------------------------------------------------------------
(* Python: None, exceptions, binding of positional arguments.              *)

None == "None"

NoExc == [type |-> "none", about |-> ""]
Exc(type, about) == [type |-> type, about |-> about]

\* a call binds its positional arguments to the parameters of the def:
\* any other number of arguments is a TypeError raised before the body runs
Binds(params, args) == Len(args) = Len(params)

\* what a mode check did: the exception it ended with, the warnings it
\* logged, the calls it made to check_input_args_combination
Effect(exc, warns, calls) == [exc |-> exc, warnings |-> warns, delegated |-> calls]
Quiet == Effect(NoExc, <<>>, <<>>)

\* statement e1 followed by statement e2: e2 runs only if e1 did not raise
Then(e1, e2) ==
    IF e1.exc # NoExc THEN e1
    ELSE Effect(e2.exc, e1.warnings \o e2.warnings, e1.delegated \o e2.delegated)

WaveformModes == {None, "CW", "BB"}
EncodeModes == {None, "power", "complex"}

----------------------------------------------------------------------------
(* core.py: the mode checks.                                               *)

\* echodata.simrad.check_input_args_combination: rejects broadband
\* transmission paired with power-only encoding
check_input_args_combination(waveform_mode, encode_mode) ==
    Effect(IF waveform_mode = "BB" /\ encode_mode = "power"
           THEN Exc("IncompatibleModeCombination", "waveform_mode,encode_mode")
           ELSE NoExc,
           <<>>, << <<waveform_mode, encode_mode>> >>)

EK80_waveform_mode_check(args) ==
    IF ~Binds(<<"waveform_mode", "encode_mode">>, args) THEN
        Effect(Exc("TypeError", "EK80_waveform_mode_check"), <<>>, <<>>)
    ELSE IF args[1] = None THEN
        Effect(Exc("ValueError", "waveform_mode"), <<>>, <<>>)
    ELSE Quiet

EK80_encode_mode_check(args) ==
    IF ~Binds(<<"encode_mode">>, args) THEN
        Effect(Exc("TypeError", "EK80_encode_mode_check"), <<>>, <<>>)
    ELSE IF args[1] = None THEN
        Effect(Exc("ValueError", "encode_mode"), <<>>, <<>>)
    ELSE Quiet

EK80_mode_checks(args) ==
    IF ~Binds(<<"waveform_mode", "encode_mode">>, args) THEN
        Effect(Exc("TypeError", "EK80_mode_checks"), <<>>, <<>>)
    ELSE LET waveform_mode == args[1]
             encode_mode == args[2]
         IN  Then(EK80_waveform_mode_check(<<waveform_mode>>),
             Then(EK80_encode_mode_check(<<encode_mode>>),
                  check_input_args_combination(waveform_mode, encode_mode)))

EK60_waveform_mode_check(args) ==
    IF ~Binds(<<"waveform_mode", "encode_mode">>, args) THEN
        Effect(Exc("TypeError", "EK60_waveform_mode_check"), <<>>, <<>>)
    ELSE IF args[1] # None /\ args[1] # "CW" THEN
        Effect(NoExc, <<"waveform_mode">>, <<>>)
    ELSE Quiet

EK60_encode_mode_check(args) ==
    IF ~Binds(<<"encode_mode">>, args) THEN
        Effect(Exc("TypeError", "EK60_encode_mode_check"), <<>>, <<>>)
    ELSE IF args[1] # None /\ args[1] # "power" THEN
        Effect(NoExc, <<"encode_mode">>, <<>>)
    ELSE Quiet

EK60_mode_checks(args) ==
    IF ~Binds(<<"waveform_mode", "encode_mode">>, args) THEN
        Effect(Exc("TypeError", "EK60_mode_checks"), <<>>, <<>>)
    ELSE Then(EK60_waveform_mode_check(<<args[1]>>),
              EK60_encode_mode_check(<<args[2]>>))

AZFP_waveform_mode_check(args) ==
    IF ~Binds(<<"waveform_mode">>, args) THEN
        Effect(Exc("TypeError", "AZFP_waveform_mode_check"), <<>>, <<>>)
    ELSE IF args[1] # None /\ args[1] # "CW" THEN
        Effect(NoExc, <<"waveform_mode">>, <<>>)
    ELSE Quiet

AZFP_encode_mode_check(args) ==
    IF ~Binds(<<"encode_mode">>, args) THEN
        Effect(Exc("TypeError", "AZFP_encode_mode_check"), <<>>, <<>>)
    ELSE IF args[1] # None /\ args[1] # "power" THEN
        Effect(NoExc, <<"encode_mode">>, <<>>)
    ELSE Quiet

AZFP_mode_checks(args) ==
    IF ~Binds(<<"waveform_mode", "encode_mode">>, args) THEN
        Effect(Exc("TypeError", "AZFP_mode_checks"), <<>>, <<>>)
    ELSE Then(AZFP_waveform_mode_check(<<args[1]>>),
              AZFP_encode_mode_check(<<args[2]>>))

\* "mode_checks" : lambda: None
lambda_mode_checks(args) ==
    IF ~Binds(<<>>, args) THEN Effect(Exc("TypeError", "lambda"), <<>>, <<>>)
    ELSE Quiet

----------------------------------------------------------------------------
(* core.py: the registry.  A slot holds the name of the function (or the   *)
(* flag, or the class) the source puts there.                              *)

ModelKeys == {"AZFP", "AZFP6", "EK60", "ES70", "EK80", "ES80", "EA640", "AD2CP"}

SONAR_MODELS ==
    [m \in ModelKeys |->
       CASE m = "AZFP" ->
            [validate_ext |-> "validate_azfp_ext", xml |-> "True",
             accepts_bot |-> "False", accepts_idx |-> "False",
             parser |-> "ParseAZFP", parsed2zarr |-> None,
             set_groups |-> "SetGroupsAZFP",
             mode_checks |-> "AZFP_mode_checks",
             add_attrs_check |-> "lambda_add_attrs",
             backscatter_check |-> "AZFP_backscatter_check",
             save_file_check |-> "BASE_save_file_check"]
         [] m = "AZFP6" ->
            [validate_ext |-> "validate_ext(.azfp)", xml |-> "False",
             accepts_bot |-> "False", accepts_idx |-> "False",
             parser |-> "ParseAZFP6", parsed2zarr |-> None,
             set_groups |-> "SetGroupsAZFP6",
             mode_checks |-> "lambda_mode_checks",
             add_attrs_check |-> "lambda_add_attrs",
             backscatter_check |-> "lambda_backscatter",
             save_file_check |-> "BASE_save_file_check"]
         [] m = "EK60" ->
            [validate_ext |-> "validate_ext(.raw)", xml |-> "False",
             accepts_bot |-> "True", accepts_idx |-> "True",
             parser |-> "ParseEK60", set_groups |-> "SetGroupsEK60",
             range_meter |-> "lambda_range_meter_Ex60",
             mode_checks |-> "EK60_mode_checks",
             add_attrs_check |-> "lambda_add_attrs",
             backscatter_check |-> "EK60_backscatter_check",
             save_file_check |-> "BASE_save_file_check"]
         [] m = "ES70" ->
            [validate_ext |-> "validate_ext(.raw)", xml |-> "False",
             accepts_bot |-> "False", accepts_idx |-> "False",
             parser |-> "ParseEK60", set_groups |-> "SetGroupsEK60",
             range_meter |-> "lambda_range_meter_Ex60",
             mode_checks |-> "lambda_mode_checks",
             add_attrs_check |-> "lambda_add_attrs",
             backscatter_check |-> "lambda_backscatter",
             save_file_check |-> "BASE_save_file_check"]
         [] m = "EK80" ->
            [validate_ext |-> "validate_ext(.raw)", xml |-> "False",
             accepts_bot |-> "True", accepts_idx |-> "True",
             parser |-> "ParseEK80", set_groups |-> "SetGroupsEK80",
             range_meter |-> "lambda_range_meter_Ex80",
             mode_checks |-> "EK80_mode_checks",
             add_attrs_check |-> "EK80_add_attrs_check",
             backscatter_check |-> "EK80_backscatter_check",
             save_file_check |-> "BASE_save_file_check"]
         [] m = "ES80" ->
            [validate_ext |-> "validate_ext(.raw)", xml |-> "False",
             accepts_bot |-> "False", accepts_idx |-> "False",
             parser |-> "ParseEK80", set_groups |-> "SetGroupsEK80",
             range_meter |-> "lambda_range_meter_Ex80",
             mode_checks |-> "lambda_mode_checks",
             add_attrs_check |-> "lambda_add_attrs",
             backscatter_check |-> "lambda_backscatter",
             save_file_check |-> "BASE_save_file_check"]
         [] m = "EA640" ->
            [validate_ext |-> "validate_ext(.raw)", xml |-> "False",
             accepts_bot |-> "False", accepts_idx |-> "False",
             parser |-> "ParseEK80", set_groups |-> "SetGroupsEK80",
             range_meter |-> "lambda_range_meter_minus_mod_Ex80",
             mode_checks |-> "lambda_mode_checks",
             add_attrs_check |-> "lambda_add_attrs",
             backscatter_check |-> "lambda_backscatter",
             save_file_check |-> "BASE_save_file_check"]
         [] m = "AD2CP" ->
            [validate_ext |-> "validate_ext(.ad2cp)", xml |-> "False",
             accepts_bot |-> "False", accepts_idx |-> "False",
             parser |-> "ParseAd2cp", parsed2zarr |-> None,
             set_groups |-> "SetGroupsAd2cp",
             mode_checks |-> "lambda_mode_checks",
             add_attrs_check |-> "lambda_add_attrs",
             backscatter_check |-> "lambda_backscatter",
             save_file_check |-> "AD2CP_save_file_check"]]

\* every key some entry of the registry holds
SlotKeys == UNION {DOMAIN SONAR_MODELS[m] : m \in ModelKeys}

\* SONAR_MODELS[model][slot]: a dict lookup, KeyError on a missing key
Subscript(model, slot) ==
    IF slot \in DOMAIN SONAR_MODELS[model]
    THEN [exc |-> NoExc, value |-> SONAR_MODELS[model][slot]]
    ELSE [exc |-> Exc("KeyError", slot), value |-> None]

\* the function a mode_checks slot names, applied to args
ApplyModeChecks(fn, args) ==
    CASE fn = "AZFP_mode_checks" -> AZFP_mode_checks(args)
      [] fn = "EK60_mode_checks" -> EK60_mode_checks(args)
      [] fn = "EK80_mode_checks" -> EK80_mode_checks(args)
      [] fn = "lambda_mode_checks" -> lambda_mode_checks(args)

----------------------------------------------------------------------------
(* core.py: range correction.  A range is an array over (channel,          *)
(* range_sample); beam and vend hold one value per channel.                *)

\* range samples of a record
NumBins == 3
Bins == 1..NumBins

\* a returned value v, and the return value None
Ret(v) == <<v>>
RetNone == <<>>
Returned(v) == [exc |-> NoExc, value |-> Ret(v)]
ReturnedNone == [exc |-> NoExc, value |-> RetNone]
Raised(type, about) == [exc |-> Exc(type, about), value |-> RetNone]

\* array - per-channel array, broadcast over range_sample
SubPerChannel(range_meter, mod) ==
    [ch \in Channels |-> [b \in Bins |-> RSub(range_meter[ch][b], mod[ch])]]

\* Shift B
mod_Ex80(beam, sound_speed) ==
    [ch \in Channels |->
        RDiv(RMul(sound_speed, beam.transmit_duration_nominal[ch]), Rat(4))]

\* Shift A: the 2-sample shift
mod_Ex60(beam, sound_speed) ==
    [ch \in Channels |->
        RDiv(RMul(RMul(Rat(2), beam.sample_interval[ch]), sound_speed), Rat(2))]

\* lines 64-69 of range_meter_Ex80, were range_meter bound to a value when
\* line 64 reads it: Shift B off every channel, then Shift A off the GPT ones
range_meter_Ex80_body(range_meter, beam, vend, sound_speed) ==
    LET shifted == SubPerChannel(range_meter, mod_Ex80(beam, sound_speed))
        ex60 == mod_Ex60(beam, sound_speed)
    IN  IF \E ch \in Channels : vend.transceiver_type[ch] = "GPT"
        THEN [ch \in Channels |->
                IF vend.transceiver_type[ch] = "GPT"
                THEN [b \in Bins |-> RSub(shifted[ch][b], ex60[ch])]
                ELSE shifted[ch]]
        ELSE shifted

\* def range_meter_Ex80(beam, vend, sound_speed): range_meter is assigned in
\* the body, so it is a local name, unbound when line 64 reads it; and the
\* body has no return statement, so a run that got through would return None
range_meter_Ex80(beam, vend, sound_speed) ==
    LET locals == [beam |-> beam, vend |-> vend, sound_speed |-> sound_speed]
    IN  IF "range_meter" \notin DOMAIN locals
        THEN Raised("UnboundLocalError", "range_meter")
        ELSE ReturnedNone

\* the function a range_meter slot names, called with the four arguments
\* (range_meter, beam, vend, sound_speed)
ApplyRangeMeter(fn, range_meter, beam, vend, sound_speed) ==
    CASE fn = "lambda_range_meter_Ex60" ->
            Returned(SubPerChannel(range_meter, mod_Ex60(beam, sound_speed)))
      [] fn = "lambda_range_meter_Ex80" ->
            range_meter_Ex80(beam, vend, sound_speed)
      [] fn = "lambda_range_meter_minus_mod_Ex80" ->
            Returned(SubPerChannel(range_meter, mod_Ex80(beam, sound_speed)))

----------------------------------------------------------------------------
(* core.py: backscatter size.  echodata maps a group name to the byte      *)
(* sizes of the variables the group holds.                                 *)

Item(group, key) ==
    IF key \in DOMAIN group THEN Returned(group[key]) ELSE Raised("KeyError", key)

EK60_backscatter_check(echodata, ed_beam_group, waveform_mode, encode_mode) ==
    Item(echodata["Sonar/Beam_group1"], "backscatter_r")

AZFP_backscatter_check(echodata, ed_beam_group, waveform_mode, encode_mode) ==
    Item(echodata["Sonar/Beam_group1"], "backscatter_r")

\* total_nbytes is assigned and never returned: the body has no return
EK80_backscatter_check(echodata, ed_beam_group, waveform_mode, encode_mode) ==
    LET beam == echodata[ed_beam_group]
        r == Item(beam, "backscatter_r")
        i == Item(beam, "backscatter_i")
        first ==
            IF (waveform_mode = "BB") \/ (waveform_mode = "CW" /\ encode_mode = "complex")
            THEN IF r.exc # NoExc THEN r
                 ELSE IF i.exc # NoExc THEN i
                 ELSE Returned(r.value[1] + i.value[1])
            ELSE ReturnedNone
        second ==
            IF waveform_mode = "CW" /\ encode_mode = "power"
            THEN IF r.exc # NoExc THEN r ELSE Returned(r.value[1])
            ELSE first
    IN  IF first.exc # NoExc THEN first
        ELSE IF second.exc # NoExc THEN second
        ELSE ReturnedNone

\* the function a backscatter_check slot names, called with the four arguments
ApplyBackscatterCheck(fn, echodata, ed_beam_group, waveform_mode, encode_mode) ==
    CASE fn = "AZFP_backscatter_check" ->
            AZFP_backscatter_check(echodata, ed_beam_group, waveform_mode, encode_mode)
      [] fn = "EK60_backscatter_check" ->
            EK60_backscatter_check(echodata, ed_beam_group, waveform_mode, encode_mode)
      [] fn = "EK80_backscatter_check" ->
            EK80_backscatter_check(echodata, ed_beam_group, waveform_mode, encode_mode)
      [] fn = "lambda_backscatter" -> ReturnedNone

----------------------------------------------------------------------------
(* process_azfp.py: the AZFP calibration.                                  *)

\* dict.get(key, 1500) in place of d[key]: an absent key defaults silently
GetOrDefault(d, key) == IF key \in DOMAIN d THEN Returned(d[key]) ELSE Returned(Rat(1500))

\* a dict, or the fields of a dataset: a function from its keys
Get(d, key) == IF key \in DOMAIN d THEN Returned(d[key]) ELSE Raised("KeyError", key)
Attr(d, name) ==
    IF name \in DOMAIN d THEN Returned(d[name]) ELSE Raised("AttributeError", name)

\* the first access of a sequence of accesses that raises, else NoExc
RECURSIVE FirstExc(_)
FirstExc(accesses) ==
    IF accesses = <<>> THEN NoExc
    ELSE IF Head(accesses).exc # NoExc THEN Head(accesses).exc
    ELSE FirstExc(Tail(accesses))

RECURSIVE RSum(_, _)
RSum(f, n) == IF n = 0 THEN Rat(0) ELSE RAdd(RSum(f, n - 1), f[n])

\* the first ping's value in place of the mean over ping_time
FirstPing(f) == f[1]

\* DataArray.mean() of an array over ping_time
Mean(f) == RDiv(RSum(f, NumPings), Rat(NumPings))

\* calc_range(ed, env_params, tilt_corrected): the value returned or the
\* exception raised, and whether the vendor dataset it opened was closed
calc_range(raw, vend, env_params, tilt_corrected) ==
    LET range_samples == Attr(vend, "number_of_samples_per_average_bin")
        pulse_length == Attr(raw, "transmit_duration_nominal")
        bins_to_avg == 1
        sound_speed == Get(env_params, "speed_of_sound_in_water")
        dig_rate == Attr(vend, "digitization_rate")
        lockout_index == Attr(vend, "lockout_index")
        cos_tilt_mag == IF tilt_corrected THEN Attr(raw, "cos_tilt_mag") ELSE ReturnedNone
        exc == FirstExc(<<range_samples, pulse_length, sound_speed, dig_rate,
                          lockout_index, cos_tilt_mag>>)
        c == sound_speed.value[1]
        \* np.arange(1, len(range_bin) - bins_to_avg + 2, bins_to_avg)
        range_mod == [k \in Bins |-> 1 + (k - 1) * bins_to_avg]
        range_meter ==
            [ch \in Channels |-> [k \in Bins |->
                RAdd(RMul(Frac(lockout_index.value[1][ch], 2 * dig_rate.value[1][ch]), c),
                     RMul(RDiv(c, Rat(4)),
                          RAdd(Frac((2 * range_mod[k] - 1) * range_samples.value[1][ch]
                                        * bins_to_avg - 1,
                                    dig_rate.value[1][ch]),
                               pulse_length.value[1][ch])))]]
        tilted ==
            IF tilt_corrected
            THEN [ch \in Channels |-> [k \in Bins |->
                    RMul(Mean(cos_tilt_mag.value[1]), range_meter[ch][k])]]
            ELSE range_meter
    IN  IF exc # NoExc
        THEN [exc |-> exc, value |-> RetNone, closed |-> FALSE]
        ELSE [exc |-> NoExc, value |-> Ret(tilted), closed |-> TRUE]

\* a value in dB is kept as the exact parts of its sum: log10 has no exact
\* rational value, so the arguments of the logarithms are kept, not the logs
\*   lin - 20*log10(vtx) + spreading*log10(range) + absorb - 10*log10(beam)
Decibel(lin, vtx, spreading, range, absorb, beam) ==
    [lin |-> lin, vtx |-> vtx, spreading |-> spreading, range |-> range,
     absorb |-> absorb, beam |-> beam]

\* ProcessBase._restructure_range: the (channel, range_sample) profile
\* broadcast across ping time
restructure_range(range) ==
    [ch \in Channels |-> [p \in Pings |-> [k \in Bins |-> range[ch][k]]]]

\* ProcessBase.validate_proc_path: the path the calibrated data is saved to
validate_proc_path(raw_file, postfix, save_path, save_format) ==
    <<raw_file, postfix, save_path, save_format>>

\* lines 57-63: the Sv formula, its dict and attribute accesses in the order
\* Python evaluates them
Sv_formula(raw, range, env_params, cal_params) ==
    LET EL == Get(cal_params, "EL")
        DS == Get(cal_params, "DS")
        backscatter_r == Attr(raw, "backscatter_r")
        TVR == Get(cal_params, "TVR")
        VTX == Get(cal_params, "VTX")
        absorption == Get(env_params, "absorption")
        sound_speed == Get(env_params, "speed_of_sound_in_water")
        pulse_length == Attr(raw, "transmit_duration_nominal")
        eba == Get(cal_params, "equivalent_beam_angle")
        Sv_offset == Get(cal_params, "Sv_offset")
        exc == FirstExc(<<EL, DS, backscatter_r, TVR, VTX, absorption, sound_speed,
                          pulse_length, eba, Sv_offset>>)
        Sv == [ch \in Channels |-> [p \in Pings |-> [k \in Bins |->
                Decibel(
                    RAdd(RSub(RAdd(RSub(EL.value[1], RDiv(Frac(5, 2), DS.value[1])),
                                   RDiv(Rat(backscatter_r.value[1][ch][p][k]),
                                        RMul(Rat(26214), DS.value[1]))),
                              TVR.value[1]),
                         Sv_offset.value[1]),
                    VTX.value[1],
                    20,
                    range[ch][k],
                    RMul(RMul(Rat(2), absorption.value[1]), range[ch][k]),
                    RMul(RMul(RMul(Frac(1, 2), sound_speed.value[1]),
                              pulse_length.value[1][ch]),
                         eba.value[1]))]]]
    IN  IF exc # NoExc THEN [exc |-> exc, value |-> RetNone] ELSE Returned(Sv)

\* lines 89-92: the Sp formula
Sp_formula(raw, range, env_params, cal_params) ==
    LET EL == Get(cal_params, "EL")
        DS == Get(cal_params, "DS")
        backscatter_r == Attr(raw, "backscatter_r")
        TVR == Get(cal_params, "TVR")
        VTX == Get(cal_params, "VTX")
        absorption == Get(env_params, "absorption")
        exc == FirstExc(<<EL, DS, backscatter_r, TVR, VTX, absorption>>)
        Sp == [ch \in Channels |-> [p \in Pings |-> [k \in Bins |->
                Decibel(
                    RSub(RAdd(RSub(EL.value[1], RDiv(Frac(5, 2), DS.value[1])),
                              RDiv(Rat(backscatter_r.value[1][ch][p][k]),
                                   RMul(Rat(26214), DS.value[1]))),
                         TVR.value[1]),
                    VTX.value[1],
                    40,
                    range[ch][k],
                    RMul(RMul(Rat(2), absorption.value[1]), range[ch][k]),
                    Rat(1))]]]
    IN  IF exc # NoExc THEN [exc |-> exc, value |-> RetNone] ELSE Returned(Sp)

\* Sv.name = 'Sv'; Sv = Sv.to_dataset(); Sv['range'] = (dims, restructured range)
Dataset(name, array, range) ==
    [name |-> name, data |-> array,
     range_dims |-> <<"frequency", "ping_time", "range_bin">>,
     range |-> restructure_range(range)]

\* io.save_file(ds, path, mode=..., engine=...)
SaveCall(ds, path, mode, engine) == [ds |-> ds, path |-> path, mode |-> mode, engine |-> engine]

\* what a calibration call leaves behind: the exception, the handle, the
\* save_file calls made, the vendor datasets opened and not closed
Outcome(exc, handle, saves, left_open) ==
    [exc |-> exc, ed |-> handle, saved |-> saves, left_open |-> left_open]

\* get_Sv(self, ed, env_params, cal_params, save, save_path, save_format);
\* raw and vend are the datasets behind ed.raw and ed.get_vend_from_raw()
get_Sv(handle, raw, vend, env_params, cal_params, save, save_path, save_format) ==
    IF handle.range = <<>> /\ calc_range(raw, vend, env_params, FALSE).exc # NoExc
    THEN Let(calc_range(raw, vend, env_params, FALSE), LAMBDA r :
             Outcome(r.exc, handle, <<>>, IF r.closed THEN 0 ELSE 1))
    ELSE
      Let(IF handle.range = <<>>
          THEN [handle EXCEPT !.range = calc_range(raw, vend, env_params, FALSE).value]
          ELSE handle, LAMBDA ed1 :
      Let(Sv_formula(raw, ed1.range[1], env_params, cal_params), LAMBDA Sv :
          IF Sv.exc # NoExc THEN Outcome(Sv.exc, ed1, <<>>, 0)
          ELSE
            Let(Dataset("Sv", Sv.value[1], ed1.range[1]), LAMBDA ds :
            Let(validate_proc_path(handle.raw_file, "_Sv", save_path, save_format),
                LAMBDA Sv_path :
                IF save
                THEN Outcome(NoExc, [ed1 EXCEPT !.Sv_path = Ret(Sv_path)],
                             <<SaveCall(ds, Sv_path, "w", save_format)>>, 0)
                ELSE Outcome(NoExc, [ed1 EXCEPT !.Sv = Ret(ds)], <<>>, 0)))))

\* get_Sp(self, ed, env_params, cal_params, save, save_path, save_format)
get_Sp(handle, raw, vend, env_params, cal_params, save, save_path, save_format) ==
    IF handle.range = <<>> /\ calc_range(raw, vend, env_params, FALSE).exc # NoExc
    THEN Let(calc_range(raw, vend, env_params, FALSE), LAMBDA r :
             Outcome(r.exc, handle, <<>>, IF r.closed THEN 0 ELSE 1))
    ELSE
      Let(IF handle.range = <<>>
          THEN [handle EXCEPT !.range = calc_range(raw, vend, env_params, FALSE).value]
          ELSE handle, LAMBDA ed1 :
      Let(Sp_formula(raw, ed1.range[1], env_params, cal_params), LAMBDA Sp :
          IF Sp.exc # NoExc THEN Outcome(Sp.exc, ed1, <<>>, 0)
          ELSE
            Let(Dataset("Sp", Sp.value[1], ed1.range[1]), LAMBDA ds :
            Let(validate_proc_path(handle.raw_file, "_Sp", save_path, save_format),
                LAMBDA Sp_path :
                IF save
                THEN Outcome(NoExc, [ed1 EXCEPT !.Sp_path = Ret(Sp_path)],
                             <<SaveCall(ds, Sp_path, "w", save_format)>>, 0)
                ELSE Outcome(NoExc, [ed1 EXCEPT !.Sp = Ret(ds)], <<>>, 0)))))

----------------------------------------------------------------------------
(* The inputs the calls are made with.                                     *)

\* raw files: one whose first frequency is the range scenario (lockout_index
\* 100, digitization_rate 20000, 8273 samples per bin, 100 us pulse, counts
\* of 1000) and whose other frequencies are set differently, and one whose
\* data lacks the pulse length
RawFiles == {"scenario", "no_pulse"}

RawOf(f) ==
    LET backscatter_r ==
            [ch \in Channels |-> [p \in Pings |-> [k \in Bins |->
                1000 + 100 * (ch - 1) + 10 * (p - 1) + (k - 1)]]]
        cos_tilt_mag == [p \in Pings |-> IF p = 1 THEN Frac(4, 5) ELSE Frac(3, 5)]
        pulse == [ch \in Channels |-> Frac(ch, 10000)]
    IN  IF f = "no_pulse"
        THEN [backscatter_r |-> backscatter_r, cos_tilt_mag |-> cos_tilt_mag]
        ELSE [backscatter_r |-> backscatter_r, cos_tilt_mag |-> cos_tilt_mag,
              transmit_duration_nominal |-> pulse]

VendOf(f) ==
    [number_of_samples_per_average_bin |->
        [ch \in Channels |-> IF ch = 1 THEN 8273 ELSE 20 + ch],
     digitization_rate |->
        [ch \in Channels |-> IF ch = 1 THEN 20000 ELSE 64000],
     lockout_index |->
        [ch \in Channels |-> IF ch = 1 THEN 100 ELSE 8 * ch]]

EnvParams ==
    {[speed_of_sound_in_water |-> Rat(1500), absorption |-> Frac(1, 100)],
     [speed_of_sound_in_water |-> Rat(1450), absorption |-> Frac(1, 100)],
     [absorption |-> Frac(1, 100)],
     [speed_of_sound_in_water |-> Rat(1500)]}

CalFull ==
    [EL |-> Rat(170), DS |-> Frac(1, 50), TVR |-> Rat(180), VTX |-> Rat(170),
     equivalent_beam_angle |-> Frac(1, 100), Sv_offset |-> Rat(2)]

CalParams ==
    {CalFull,
     [EL |-> Rat(170), DS |-> Frac(1, 50), TVR |-> Rat(180), VTX |-> Rat(170),
      equivalent_beam_angle |-> Frac(1, 100)],
     [EL |-> Rat(170), TVR |-> Rat(180), VTX |-> Rat(170),
      equivalent_beam_angle |-> Frac(1, 100)]}

\* a handle just opened on a raw file: nothing calibrated yet
NewEchoData(f) ==
    [raw_file |-> f, range |-> <<>>, Sv |-> <<>>, Sp |-> <<>>,
     Sv_path |-> <<>>, Sp_path |-> <<>>]

\* the beam, vend and uncorrected range a range correction is called with
Beam ==
    [sample_interval |-> [ch \in Channels |-> Frac(ch, 10000)],
     transmit_duration_nominal |-> [ch \in Channels |-> Frac(ch, 1000)]]

TransceiverTypes == [Channels -> {"GPT", "WBT"}]

UncorrectedRange == [ch \in Channels |-> [b \in Bins |-> Rat(10 * b + ch)]]

SoundSpeeds == {Rat(1500), Rat(1450)}

\* the converted data a backscatter size is asked of: group 1 holds power
\* samples, group 2 (when there is one) complex samples
EchoDatas ==
    {[g \in {"Sonar/Beam_group1"} |-> [backscatter_r |-> 4800]],
     [g \in {"Sonar/Beam_group1", "Sonar/Beam_group2"} |->
        IF g = "Sonar/Beam_group1"
        THEN [backscatter_r |-> 4800]
        ELSE [backscatter_r |-> 9600, backscatter_i |-> 9600]]}

----------------------------------------------------------------------------
(* core.py: the extension validators.  An extension is the sequence of its *)
(* characters, over the characters the extensions below are written with.  *)

DigitChars == {"0", "1", "2", "9"}

\* str.casefold() of a cased character
UpperToLower ==
    [A |-> "a", C |-> "c", D |-> "d", F |-> "f", P |-> "p", R |-> "r", W |-> "w",
     Z |-> "z"]

LetterChars == DOMAIN UpperToLower \cup {UpperToLower[u] : u \in DOMAIN UpperToLower}

\* the characters of a string, joined
RECURSIVE Str(_)
Str(chars) == IF chars = <<>> THEN "" ELSE Head(chars) \o Str(Tail(chars))

\* str.casefold()
casefold(string) ==
    [i \in DOMAIN string |->
        IF string[i] \in DOMAIN UpperToLower THEN UpperToLower[string[i]] ELSE string[i]]

\* re.match: the pattern matches at the start of the string
match(pattern, string) ==
    /\ Len(string) >= Len(pattern)
    /\ \A i \in DOMAIN pattern : string[i] \in pattern[i]

\* re.fullmatch of a pattern of one character class per position
fullmatch(pattern, string) ==
    /\ Len(string) = Len(pattern)
    /\ \A i \in DOMAIN pattern : string[i] \in pattern[i]

\* r"\.\d{2}[a-zA-Z]"
AZFP_EXT_PATTERN == <<{"."}, DigitChars, DigitChars, LetterChars>>

validate_azfp_ext(test_ext) ==
    IF ~fullmatch(AZFP_EXT_PATTERN, test_ext)
    THEN Raised("ValueError",
                "Expecting a file in the form \".XXY\" "
                    \o "where XX is a number and Y is a letter but got " \o Str(test_ext))
    ELSE ReturnedNone

\* validate_ext(ext)(test_ext)
validate_ext(ext, test_ext) ==
    IF casefold(ext) # casefold(test_ext)
    THEN Raised("ValueError",
                "Expecting a " \o Str(ext) \o " file but got " \o Str(test_ext))
    ELSE ReturnedNone

\* the function a validate_ext slot names, called with an extension
ApplyValidateExt(fn, test_ext) ==
    CASE fn = "validate_azfp_ext" -> validate_azfp_ext(test_ext)
      [] fn = "validate_ext(.azfp)" -> validate_ext(<<".", "a", "z", "f", "p">>, test_ext)
      [] fn = "validate_ext(.raw)" -> validate_ext(<<".", "r", "a", "w">>, test_ext)
      [] fn = "validate_ext(.ad2cp)" ->
            validate_ext(<<".", "a", "d", "2", "c", "p">>, test_ext)

\* the extensions the validators are called with: every string of the
\* pattern's length over a dot, a digit and a letter; every spelling of the
\* fixed extensions in upper and lower case; and some longer, shorter and
\* reordered ones
ExtAlphabet == {".", "0", "a"}

CaseVariants(ext) ==
    {[i \in DOMAIN ext |->
        IF i \in upper /\ \E u \in DOMAIN UpperToLower : UpperToLower[u] = ext[i]
        THEN CHOOSE u \in DOMAIN UpperToLower : UpperToLower[u] = ext[i]
        ELSE ext[i]] : upper \in SUBSET DOMAIN ext}

Extensions ==
    [DOMAIN AZFP_EXT_PATTERN -> ExtAlphabet]
    \cup CaseVariants(<<".", "r", "a", "w">>)
    \cup CaseVariants(<<".", "a", "z", "f", "p">>)
    \cup CaseVariants(<<".", "a", "d", "2", "c", "p">>)
    \cup {<<".", "0", "1", "A">>, <<".", "9", "9", "z">>, <<".", "1", "A">>,
          <<".", "A", "0", "1">>, <<".", "r", "a", "w", "w">>, <<".", "r", "a">>,
          <<".", "0", "1", "A", "z">>, <<"0", "1", "A">>, <<"r", "a", "w">>,
          <<".", "0", "1", "2", "A">>, <<>>, <<".">>, <<".", "0", "1">>}

----------------------------------------------------------------------------
(* core.py: the attribute annotation.  A dataset maps the names of its     *)
(* variables to their data and attributes.                                 *)

\* DataArray.assign_attrs(attrs): the given attributes set, the others kept
assign_attrs(array, attrs) ==
    [array EXCEPT !.attrs =
        [k \in DOMAIN array.attrs \cup DOMAIN attrs |->
            IF k \in DOMAIN attrs THEN attrs[k] ELSE array.attrs[k]]]

\* what an annotation call leaves behind: the exception and the dataset
Annotated(exc, ds) == [exc |-> exc, ds |-> ds]

\* ds[cal_type].attrs = {...}: the attributes replaced, the others dropped
EK80_replace_attrs(cal_type, ds, waveform_mode, encode_mode) ==
    IF cal_type \notin DOMAIN ds THEN Annotated(Exc("KeyError", cal_type), ds)
    ELSE Annotated(NoExc,
                   [ds EXCEPT ![cal_type].attrs =
                       [waveform_mode |-> waveform_mode, encode_mode |-> encode_mode]])

EK80_add_attrs_check(cal_type, ds, waveform_mode, encode_mode) ==
    IF cal_type \notin DOMAIN ds THEN Annotated(Exc("KeyError", cal_type), ds)
    ELSE Annotated(NoExc,
                   [ds EXCEPT ![cal_type] =
                       assign_attrs(ds[cal_type],
                                    [waveform_mode |-> waveform_mode,
                                     encode_mode |-> encode_mode])])

\* lambda cal_type, ds, waveform_mode, encode_mode : None
lambda_add_attrs(cal_type, ds, waveform_mode, encode_mode) == Annotated(NoExc, ds)

\* the function an add_attrs_check slot names, called with its arguments
ApplyAddAttrsCheck(fn, cal_type, ds, waveform_mode, encode_mode) ==
    CASE fn = "EK80_add_attrs_check" ->
            EK80_add_attrs_check(cal_type, ds, waveform_mode, encode_mode)
      [] fn = "lambda_add_attrs" ->
            lambda_add_attrs(cal_type, ds, waveform_mode, encode_mode)

\* the calibrated datasets an annotation is called with: one holding Sv
\* alone, one holding Sv (annotated before) and Sp
CalTypes == {"Sv", "Sp"}

CalDatasets ==
    {[v \in {"Sv"} |->
        [data |-> "Sv data", attrs |-> [long_name |-> "Volume backscattering strength"]]],
     [v \in {"Sv", "Sp"} |->
        IF v = "Sv"
        THEN [data |-> "Sv data",
              attrs |-> [long_name |-> "Volume backscattering strength",
                         waveform_mode |-> "CW", encode_mode |-> "power"]]
        ELSE [data |-> "Sp data", attrs |-> [units |-> "dB"]]]}

\* xr.Dataset(): no variables
EmptyDataset == [v \in {} |-> None]

----------------------------------------------------------------------------
(* core.py: the save dispatchers.  echodata maps "Sonar" to the list of    *)
(* its beam groups and a group name to the group's dataset; a group that   *)
(* is absent reads as None.                                                *)

\* beam groups a converted file may hold
MaxGroups == 3

Digit(i) == CASE i = 1 -> "1" [] i = 2 -> "2" [] i = 3 -> "3" [] i = 4 -> "4"
              [] i = 5 -> "5" [] i = 6 -> "6" [] i = 7 -> "7" [] i = 8 -> "8"
              [] i = 9 -> "9"

\* f"Sonar/Beam_group{i}"
BeamGroupName(i) == "Sonar/Beam_group" \o Digit(i)

\* the converted data of a file with n beam groups
ConvertedData(n) ==
    [beam_group |-> [i \in 1..n |-> "Beam_group" \o Digit(i)],
     tree |-> [g \in {BeamGroupName(i) : i \in 1..n} |-> "dataset of " \o g]]

\* echodata[name]
GroupOf(echodata, name) ==
    IF name \in DOMAIN echodata.tree THEN echodata.tree[name] ELSE None

\* io.save_file(ds, path=, mode=, engine=, group=, compression_settings=, **kwargs)
SaveFileCall(ds, path, mode, engine, group, compression_settings, kwargs) ==
    [ds |-> ds, path |-> path, mode |-> mode, engine |-> engine, group |-> group,
     compression_settings |-> compression_settings, kwargs |-> kwargs]

\* COMPRESSION_SETTINGS[engine] if compress else None
CompressionOf(COMPRESSION_SETTINGS, engine, compress) ==
    IF compress THEN COMPRESSION_SETTINGS[engine] ELSE None

\* range(1, len(echodata["Sonar"]["beam_group"])): the last group is not saved
AD2CP_save_all_but_last(echodata, output_path, engine, compress, COMPRESSION_SETTINGS, BEAM_SUBGROUP_DEFAULT, kwargs) ==
    [i \in 1..(Len(echodata.beam_group) - 1) |->
        SaveFileCall(GroupOf(echodata, BeamGroupName(i)), output_path, "a", engine,
                     BeamGroupName(i),
                     CompressionOf(COMPRESSION_SETTINGS, engine, compress), kwargs)]

\* for i in range(1, len(echodata["Sonar"]["beam_group"]) + 1): io.save_file(...)
AD2CP_save_file_check(echodata, output_path, engine, compress, COMPRESSION_SETTINGS, BEAM_SUBGROUP_DEFAULT, kwargs) ==
    [i \in 1..Len(echodata.beam_group) |->
        SaveFileCall(GroupOf(echodata, BeamGroupName(i)), output_path, "a", engine,
                     BeamGroupName(i),
                     CompressionOf(COMPRESSION_SETTINGS, engine, compress), kwargs)]

BASE_save_file_check(echodata, output_path, engine, compress, COMPRESSION_SETTINGS, BEAM_SUBGROUP_DEFAULT, kwargs) ==
    <<SaveFileCall(GroupOf(echodata, "Sonar/" \o BEAM_SUBGROUP_DEFAULT), output_path,
                   "a", engine, "Sonar/" \o BEAM_SUBGROUP_DEFAULT,
                   CompressionOf(COMPRESSION_SETTINGS, engine, compress), kwargs)>>
    \o (IF GroupOf(echodata, "Sonar/Beam_group2") # None
        THEN <<SaveFileCall(GroupOf(echodata, "Sonar/Beam_group2"), output_path, "a",
                            engine, "Sonar/Beam_group2",
                            CompressionOf(COMPRESSION_SETTINGS, engine, compress),
                            kwargs)>>
        ELSE <<>>)

\* the function a save_file_check slot names, called with its arguments: the
\* save_file calls it makes, in order
ApplySaveFileCheck(fn, echodata, output_path, engine, compress, COMPRESSION_SETTINGS, BEAM_SUBGROUP_DEFAULT, kwargs) ==
    CASE fn = "AD2CP_save_file_check" ->
            AD2CP_save_file_check(echodata, output_path, engine, compress,
                                  COMPRESSION_SETTINGS, BEAM_SUBGROUP_DEFAULT, kwargs)
      [] fn = "BASE_save_file_check" ->
            BASE_save_file_check(echodata, output_path, engine, compress,
                                 COMPRESSION_SETTINGS, BEAM_SUBGROUP_DEFAULT, kwargs)

\* the arguments the dispatchers are called with
CompressionSettings == [netcdf4 |-> "zlib", zarr |-> "blosc"]
Engines == DOMAIN CompressionSettings
BeamSubgroupDefault == "Beam_group1"
ExtraArgs == {"{}", "{consolidated: True}"}

----------------------------------------------------------------------------
(* The state machine: one action per call.                                 *)

Called(fn, model, args) == [fn |-> fn, model |-> model, args |-> args]

Init ==
    /\ call = Called("none", None, <<>>)
    /\ result = ReturnedNone
    /\ warnings = <<>>
    /\ delegated = <<>>
    /\ saved = <<>>
    /\ ed = NewEchoData("scenario")
    /\ open_vend = 0
    /\ cal_ds = EmptyDataset

\* open_raw: a new handle on a raw file
OpenRaw(f) ==
    /\ call' = Called("open_raw", "AZFP", [raw_file |-> f])
    /\ result' = ReturnedNone
    /\ ed' = NewEchoData(f)
    /\ warnings' = <<>> /\ delegated' = <<>> /\ saved' = <<>>
    /\ cal_ds' = EmptyDataset
    /\ UNCHANGED open_vend

\* SONAR_MODELS[model][slot]
Lookup(model, slot) ==
    /\ call' = Called("lookup", model, [slot |-> slot])
    /\ result' = LET r == Subscript(model, slot)
                 IN  [exc |-> r.exc, value |-> IF r.exc = NoExc THEN Ret(r.value) ELSE RetNone]
    /\ warnings' = <<>> /\ delegated' = <<>> /\ saved' = <<>>
    /\ cal_ds' = EmptyDataset
    /\ UNCHANGED <<ed, open_vend>>

\* SONAR_MODELS[model]["mode_checks"](waveform_mode, encode_mode)
ModeChecks(model, waveform_mode, encode_mode) ==
    LET e == ApplyModeChecks(SONAR_MODELS[model].mode_checks,
                             <<waveform_mode, encode_mode>>)
    IN  /\ call' = Called("mode_checks", model,
                          [waveform_mode |-> waveform_mode, encode_mode |-> encode_mode])
        /\ result' = [exc |-> e.exc, value |-> RetNone]
        /\ warnings' = e.warnings
        /\ delegated' = e.delegated
        /\ saved' = <<>>
        /\ cal_ds' = EmptyDataset
    /\ UNCHANGED <<ed, open_vend>>

\* SONAR_MODELS[model]["range_meter"](range_meter, beam, vend, sound_speed)
RangeMeter(model, transceiver_type, sound_speed) ==
    LET slot == Subscript(model, "range_meter")
        vend == [transceiver_type |-> transceiver_type]
    IN  /\ call' = Called("range_meter", model,
                          [range_meter |-> UncorrectedRange, beam |-> Beam,
                           vend |-> vend, sound_speed |-> sound_speed])
        /\ result' = IF slot.exc # NoExc THEN [exc |-> slot.exc, value |-> RetNone]
                     ELSE ApplyRangeMeter(slot.value, UncorrectedRange, Beam, vend,
                                          sound_speed)
        /\ warnings' = <<>> /\ delegated' = <<>> /\ saved' = <<>>
        /\ cal_ds' = EmptyDataset
    /\ UNCHANGED <<ed, open_vend>>

\* SONAR_MODELS[model]["backscatter_check"](echodata, ed_beam_group,
\*                                          waveform_mode, encode_mode)
BackscatterCheck(model, echodata, ed_beam_group, waveform_mode, encode_mode) ==
    /\ ed_beam_group \in DOMAIN echodata
    /\ call' = Called("backscatter_check", model,
                      [echodata |-> echodata, ed_beam_group |-> ed_beam_group,
                       waveform_mode |-> waveform_mode, encode_mode |-> encode_mode])
    /\ result' = ApplyBackscatterCheck(SONAR_MODELS[model].backscatter_check, echodata,
                                       ed_beam_group, waveform_mode, encode_mode)
    /\ warnings' = <<>> /\ delegated' = <<>> /\ saved' = <<>>
    /\ cal_ds' = EmptyDataset
    /\ UNCHANGED <<ed, open_vend>>

\* ProcessAZFP().calc_range(ed, env_params, tilt_corrected)
CalcRange(env_params, tilt_corrected) ==
    \E raw \in {RawOf(ed.raw_file)}, vend \in {VendOf(ed.raw_file)} :
    \E r \in {calc_range(raw, vend, env_params, tilt_corrected)} :
        /\ r.closed \/ open_vend < MaxOpen
        /\ call' = Called("calc_range", "AZFP",
                          [env_params |-> env_params, tilt_corrected |-> tilt_corrected])
        /\ result' = [exc |-> r.exc, value |-> r.value]
        /\ open_vend' = IF r.closed THEN open_vend ELSE open_vend + 1
        /\ warnings' = <<>> /\ delegated' = <<>> /\ saved' = <<>>
        /\ cal_ds' = EmptyDataset
        /\ UNCHANGED ed

\* ProcessAZFP().get_Sv(ed, env_params, cal_params, save): save_path and
\* save_format take their defaults, None and 'zarr'
GetSv(env_params, cal_params, save) ==
    \E raw \in {RawOf(ed.raw_file)}, vend \in {VendOf(ed.raw_file)} :
    \E o \in {get_Sv(ed, raw, vend, env_params, cal_params, save, None, "zarr")} :
        /\ open_vend + o.left_open <= MaxOpen
        /\ call' = Called("get_Sv", "AZFP",
                          [env_params |-> env_params, cal_params |-> cal_params,
                           save |-> save])
        /\ result' = [exc |-> o.exc, value |-> RetNone]
        /\ ed' = o.ed
        /\ saved' = o.saved
        /\ open_vend' = open_vend + o.left_open
        /\ warnings' = <<>> /\ delegated' = <<>>
        /\ cal_ds' = EmptyDataset

\* ProcessAZFP().get_Sp(ed, env_params, cal_params, save)
GetSp(env_params, cal_params, save) ==
    \E raw \in {RawOf(ed.raw_file)}, vend \in {VendOf(ed.raw_file)} :
    \E o \in {get_Sp(ed, raw, vend, env_params, cal_params, save, None, "zarr")} :
        /\ open_vend + o.left_open <= MaxOpen
        /\ call' = Called("get_Sp", "AZFP",
                          [env_params |-> env_params, cal_params |-> cal_params,
                           save |-> save])
        /\ result' = [exc |-> o.exc, value |-> RetNone]
        /\ ed' = o.ed
        /\ saved' = o.saved
        /\ open_vend' = open_vend + o.left_open
        /\ warnings' = <<>> /\ delegated' = <<>>
        /\ cal_ds' = EmptyDataset

\* SONAR_MODELS[model]["save_file_check"](echodata, output_path, engine, compress,
\*     COMPRESSION_SETTINGS, BEAM_SUBGROUP_DEFAULT, **kwargs), on a file of n groups
SaveFileCheck(model, n, engine, compress, kwargs) ==
    /\ call' = Called("save_file_check", model,
                      [groups |-> n, engine |-> engine, compress |-> compress,
                       kwargs |-> kwargs])
    /\ result' = ReturnedNone
    /\ saved' = ApplySaveFileCheck(SONAR_MODELS[model].save_file_check,
                                   ConvertedData(n), "out", engine, compress,
                                   CompressionSettings, BeamSubgroupDefault, kwargs)
    /\ warnings' = <<>> /\ delegated' = <<>>
    /\ cal_ds' = EmptyDataset
    /\ UNCHANGED <<ed, open_vend>>

\* SONAR_MODELS[model]["validate_ext"](test_ext)
ValidateExt(model, test_ext) ==
    /\ call' = Called("validate_ext", model, [test_ext |-> test_ext])
    /\ result' = ApplyValidateExt(SONAR_MODELS[model].validate_ext, test_ext)
    /\ warnings' = <<>> /\ delegated' = <<>> /\ saved' = <<>>
    /\ cal_ds' = EmptyDataset
    /\ UNCHANGED <<ed, open_vend>>

\* SONAR_MODELS[model]["add_attrs_check"](cal_type, ds, waveform_mode, encode_mode)
AddAttrsCheck(model, cal_type, ds, waveform_mode, encode_mode) ==
    \E a \in {ApplyAddAttrsCheck(SONAR_MODELS[model].add_attrs_check, cal_type, ds,
                                 waveform_mode, encode_mode)} :
        /\ call' = Called("add_attrs_check", model,
                          [cal_type |-> cal_type, ds |-> ds,
                           waveform_mode |-> waveform_mode, encode_mode |-> encode_mode])
        /\ result' = [exc |-> a.exc, value |-> RetNone]
        /\ cal_ds' = a.ds
        /\ warnings' = <<>> /\ delegated' = <<>> /\ saved' = <<>>
        /\ UNCHANGED <<ed, open_vend>>

\* the calls on the registry (core.py)
Next ==
    \/ \E m \in ModelKeys, slot \in SlotKeys : Lookup(m, slot)
    \/ \E m \in ModelKeys, w \in WaveformModes, e \in EncodeModes : ModeChecks(m, w, e)
    \/ \E m \in ModelKeys, t \in TransceiverTypes, c \in SoundSpeeds : RangeMeter(m, t, c)
    \/ \E m \in ModelKeys, d \in EchoDatas, g \in {"Sonar/Beam_group1", "Sonar/Beam_group2"},
          w \in WaveformModes, e \in EncodeModes : BackscatterCheck(m, d, g, w, e)
    \/ \E m \in ModelKeys, n \in 1..MaxGroups, g \in Engines, c \in BOOLEAN,
          k \in ExtraArgs : SaveFileCheck(m, n, g, c, k)
    \/ \E m \in ModelKeys, x \in Extensions : ValidateExt(m, x)
    \/ \E m \in ModelKeys, t \in CalTypes, d \in CalDatasets, w \in WaveformModes,
          e \in EncodeModes : AddAttrsCheck(m, t, d, w, e)

Spec == Init /\ [][Next]_vars

\* the calls on a data handle (process_azfp.py)
CalNext ==
    \/ \E f \in RawFiles : OpenRaw(f)
    \/ \E env \in EnvParams, t \in BOOLEAN : CalcRange(env, t)
    \/ \E env \in EnvParams, cal \in CalParams, s \in BOOLEAN : GetSv(env, cal, s)
    \/ \E env \in EnvParams, cal \in CalParams, s \in BOOLEAN : GetSp(env, cal, s)

CalSpec == Init /\ [][CalNext]_vars

----------------------------------------------------------------------------
(* The claims.                                                             *)

\* the capability slots of a descriptor
CapabilitySlots ==
    {"validate_ext", "xml", "accepts_bot", "accepts_idx", "parser", "set_groups",
     "mode_checks", "range_meter", "add_attrs_check", "backscatter_check",
     "save_file_check"}

\* the models whose registered mode check is the no-op
NoModeModels == {m \in ModelKeys : SONAR_MODELS[m].mode_checks = "lambda_mode_checks"}

ModeCheckOf(models) == call.fn = "mode_checks" /\ call.model \in models

\* C1: for every model key, every capability slot is present in the registry
\* entry: looking a capability slot up never fails with a missing key.
C1_EverySlotPresent ==
    (call.fn = "lookup" /\ call.args.slot \in CapabilitySlots) => result.exc = NoExc

\* C2: the EK80 mode check with waveform_mode None fails with the missing-mode
\* error naming waveform_mode, whatever encode_mode is; otherwise with
\* encode_mode None it fails with the one naming encode_mode; in both cases
\* the delegated compatibility check is not invoked.
C2_MissingModeNamed ==
    ModeCheckOf({"EK80"}) =>
        /\ call.args.waveform_mode = None =>
              result.exc = Exc("ValueError", "waveform_mode") /\ delegated = <<>>
        /\ (call.args.waveform_mode # None /\ call.args.encode_mode = None) =>
              result.exc = Exc("ValueError", "encode_mode") /\ delegated = <<>>

\* C3: the EK80 mode check with both modes present invokes the delegated
\* compatibility check exactly once, with exactly those two values, and ends
\* as that check ends.
C3_DelegatesOnce ==
    (ModeCheckOf({"EK80"}) /\ call.args.waveform_mode # None
                           /\ call.args.encode_mode # None) =>
        /\ delegated = << <<call.args.waveform_mode, call.args.encode_mode>> >>
        /\ result.exc = check_input_args_combination(call.args.waveform_mode,
                                                     call.args.encode_mode).exc

\* C4: the AZFP and EK60 mode checks never raise; they warn about
\* waveform_mode exactly when it is supplied and not CW, and about
\* encode_mode exactly when it is supplied and not power.
C4_NarrowbandWarnsOnly ==
    ModeCheckOf({"AZFP", "EK60"}) =>
        /\ result.exc = NoExc
        /\ (\E i \in DOMAIN warnings : warnings[i] = "waveform_mode")
              <=> call.args.waveform_mode \notin {None, "CW"}
        /\ (\E i \in DOMAIN warnings : warnings[i] = "encode_mode")
              <=> call.args.encode_mode \notin {None, "power"}

\* C5: for the models with no mode concept the registered mode check, called
\* with any (waveform_mode, encode_mode), never fails and does nothing.
C5_NoModeIsNoOp ==
    ModeCheckOf(NoModeModels) =>
        result.exc = NoExc /\ warnings = <<>> /\ delegated = <<>>

\* what C6 says the range correction returns: Shift A off the GPT channels,
\* Shift B off the others
C6_Expected ==
    LET a == call.args
    IN  [ch \in Channels |-> [b \in Bins |->
            IF a.vend.transceiver_type[ch] = "GPT"
            THEN RSub(a.range_meter[ch][b],
                      RMul(a.beam.sample_interval[ch], a.sound_speed))
            ELSE RSub(a.range_meter[ch][b],
                      RDiv(RMul(a.sound_speed, a.beam.transmit_duration_nominal[ch]),
                           Rat(4)))]]

\* C6: the range correction registered for EK80 returns, per channel, the
\* uncorrected range minus Shift B, and on the GPT channels the uncorrected
\* range minus Shift A instead.
C6_RangeCorrected ==
    (call.fn = "range_meter" /\ call.model = "EK80") =>
        result.exc = NoExc /\ result.value = Ret(C6_Expected)

\* C7: the EK80 backscatter size is size(backscatter_r) + size(backscatter_i)
\* of the selected beam group for BB and for CW/complex, size(backscatter_r)
\* for CW/power, and an error for every other combination.
C7_BackscatterSize ==
    (call.fn = "backscatter_check" /\ call.model = "EK80") =>
        LET a == call.args
            beam == a.echodata[a.ed_beam_group]
            both == a.waveform_mode = "BB"
                    \/ (a.waveform_mode = "CW" /\ a.encode_mode = "complex")
            power == a.waveform_mode = "CW" /\ a.encode_mode = "power"
        IN  /\ (both /\ "backscatter_i" \in DOMAIN beam) =>
                  result.exc = NoExc
                  /\ result.value = Ret(beam.backscatter_r + beam.backscatter_i)
            /\ power => result.exc = NoExc /\ result.value = Ret(beam.backscatter_r)
            /\ (~both /\ ~power) => result.exc # NoExc

\* C8: the vendor dataset calc_range opens is closed on every exit path: after
\* any sequence of calls no vendor dataset remains open.
C8_VendorDatasetClosed == open_vend = 0

\* the dataset the last get_Sv / get_Sp produced
Produced(fn) ==
    IF call.args.save THEN saved[1].ds
    ELSE IF fn = "get_Sv" THEN ed.Sv[1] ELSE ed.Sp[1]

\* the dataset the same call produces on a handle nothing was calibrated on
FromInputsOnly(fn) ==
    LET fresh == NewEchoData(ed.raw_file)
        raw == RawOf(ed.raw_file)
        vend == VendOf(ed.raw_file)
        a == call.args
    IN  IF fn = "get_Sv"
        THEN get_Sv(fresh, raw, vend, a.env_params, a.cal_params, FALSE, None, "zarr").ed.Sv[1]
        ELSE get_Sp(fresh, raw, vend, a.env_params, a.cal_params, FALSE, None, "zarr").ed.Sp[1]

\* C9: the result of get_Sv / get_Sp is a function of the raw record and the
\* parameters only: it is what the same call yields with no earlier
\* calibration call made on the handle.
C9_NoHiddenState ==
    \A fn \in {"get_Sv", "get_Sp"} :
        (call.fn = fn /\ result.exc = NoExc) => Produced(fn) = FromInputsOnly(fn)

\* C10: whenever get_Sv (get_Sp) returns, whatever its save flag, ed.Sv
\* (ed.Sp) is the dataset just computed, which holds the variable and a
\* range on the (channel, ping_time, range_sample) grid.
C10_HandleUpdated ==
    /\ (call.fn = "get_Sv" /\ result.exc = NoExc) =>
          ed.Sv = Ret(Dataset("Sv",
                              Sv_formula(RawOf(ed.raw_file), ed.range[1],
                                         call.args.env_params,
                                         call.args.cal_params).value[1],
                              ed.range[1]))
    /\ (call.fn = "get_Sp" /\ result.exc = NoExc) =>
          ed.Sp = Ret(Dataset("Sp",
                              Sp_formula(RawOf(ed.raw_file), ed.range[1],
                                         call.args.env_params,
                                         call.args.cal_params).value[1],
                              ed.range[1]))

\* C11: every save_file call a save dispatcher or a calibration makes uses the
\* append write mode.
C11_AlwaysAppend == \A i \in DOMAIN saved : saved[i].mode = "a"

\* the groups C12 says a dispatcher saves, in order
C12_Groups ==
    IF call.model = "AD2CP"
    THEN [i \in 1..call.args.groups |-> BeamGroupName(i)]
    ELSE IF call.args.groups >= 2
         THEN <<"Sonar/Beam_group1", "Sonar/Beam_group2">>
         ELSE <<"Sonar/Beam_group1">>

\* C12: the save dispatcher of AD2CP saves groups 1..n once each, in that
\* order; that of every other model saves the primary beam group, then
\* Beam_group2 only if it is present; every save carries the group's own
\* dataset and the same path, engine, compression settings and extra
\* arguments.
C12_SavesEachGroupInOrder ==
    call.fn = "save_file_check" =>
        /\ result.exc = NoExc
        /\ Len(saved) = Len(C12_Groups)
        /\ \A i \in DOMAIN saved :
              /\ saved[i].group = C12_Groups[i]
              /\ saved[i].ds = "dataset of " \o C12_Groups[i]
              /\ saved[i].engine = call.args.engine
              /\ saved[i].kwargs = call.args.kwargs
              /\ saved[i].path = saved[1].path
              /\ saved[i].compression_settings =
                    (IF call.args.compress THEN CompressionSettings[call.args.engine]
                     ELSE None)

\* C12 witnesses: AD2CP saved three groups; another model skipped an absent
\* Beam_group2
C12_Witness ==
    /\ call.fn = "save_file_check" /\ call.model = "AD2CP" /\ Len(saved) = 3
    /\ call.args.compress

\* the calibration calls that read the parameter dicts
C13_Calls == {"calc_range", "get_Sv", "get_Sp"}

\* the keys a call reads, as <<dict, key>>, in the order its formulas read
\* them; cached says the handle held a range before the call
C13_KeysRead(fn, cached) ==
    LET range == IF cached THEN <<>> ELSE <<<<"env", "speed_of_sound_in_water">>>>
    IN  CASE fn = "calc_range" -> <<<<"env", "speed_of_sound_in_water">>>>
          [] fn = "get_Sv" ->
                range \o <<<<"cal", "EL">>, <<"cal", "DS">>, <<"cal", "TVR">>,
                           <<"cal", "VTX">>, <<"env", "absorption">>,
                           <<"env", "speed_of_sound_in_water">>,
                           <<"cal", "equivalent_beam_angle">>, <<"cal", "Sv_offset">>>>
          [] fn = "get_Sp" ->
                range \o <<<<"cal", "EL">>, <<"cal", "DS">>, <<"cal", "TVR">>,
                           <<"cal", "VTX">>, <<"env", "absorption">>>>

\* those of the keys read that the arguments lack
C13_Absent(args, keys) ==
    LET Lacks(k) == k[2] \notin DOMAIN (IF k[1] = "env" THEN args.env_params
                                        ELSE args.cal_params)
    IN  SelectSeq(keys, Lacks)

C15_Range(f, c, ch, k) ==
    LET vend == VendOf(f)
        dig_rate == vend.digitization_rate[ch]
    IN  RDiv(RMul(c, RAdd(Rat(2 * vend.lockout_index[ch]
                              + (2 * k - 1) * vend.number_of_samples_per_average_bin[ch]
                              - 1),
                          RMul(RawOf(f).transmit_duration_nominal[ch], Rat(dig_rate)))),
             Rat(4 * dig_rate))

\* the mean over ping time of the cosine of the tilt
C15_MeanCosTilt(f) == RDiv(RSum(RawOf(f).cos_tilt_mag, NumPings), Rat(NumPings))

\* the scenario's expected ranges, in metres
C15_Scenario == <<Frac(1588875, 10000), Frac(4691250, 10000), Frac(7793625, 10000)>>

\* C15: calc_range returns, for every frequency and every 1-based bin k, the
\* range formula's value, multiplied by the mean cosine of the tilt exactly
\* when tilt correction is requested; for lockout_index 100, digitization
\* rate 20000, c = 1500, 8273 samples per bin and a 0.0001 s pulse the first
\* three bins are at 158.8875, 469.125 and 779.3625 m.
C15_RangeFormula ==
    (call.fn = "calc_range" /\ result.exc = NoExc) =>
        LET c == call.args.env_params.speed_of_sound_in_water
            range == result.value[1]
        IN  /\ \A ch \in Channels, k \in Bins :
                  range[ch][k] =
                      IF call.args.tilt_corrected
                      THEN RMul(C15_MeanCosTilt(ed.raw_file),
                                C15_Range(ed.raw_file, c, ch, k))
                      ELSE C15_Range(ed.raw_file, c, ch, k)
            /\ (ed.raw_file = "scenario" /\ c = Rat(1500) /\ ~call.args.tilt_corrected) =>
                  \A k \in 1..3 : range[1][k] = C15_Scenario[k]

\* C15 witnesses: the scenario's range was computed; a tilt-corrected range was
C15_Witness ==
    /\ call.fn = "calc_range" /\ result.exc = NoExc
    /\ ed.raw_file = "scenario" /\ call.args.tilt_corrected
    /\ result.value[1][1][1] = RMul(Frac(7, 10), C15_Scenario[1])

\* the fixed extension of each model with an exact validator
C14_FixedExt ==
    [m \in ModelKeys \ {"AZFP"} |->
        CASE m = "AZFP6" -> <<".", "a", "z", "f", "p">>
          [] m = "AD2CP" -> <<".", "a", "d", "2", "c", "p">>
          [] OTHER -> <<".", "r", "a", "w">>]

\* a dot, two digits, one letter of either case
C14_LegacyShape(e) ==
    /\ Len(e) = 4
    /\ e[1] = "."
    /\ e[2] \in DigitChars /\ e[3] \in DigitChars
    /\ e[4] \in LetterChars

\* equal but for the case of the letters
C14_SameIgnoringCase(a, b) ==
    /\ Len(a) = Len(b)
    /\ \A i \in DOMAIN a :
          \/ a[i] = b[i]
          \/ \E u \in DOMAIN UpperToLower : {a[i], b[i]} = {u, UpperToLower[u]}

\* C14: the validator registered for AZFP accepts an extension exactly when
\* it is a dot, two digits and one letter; that of every other model exactly
\* when it equals the model's fixed extension ignoring case; a rejection is
\* a ValueError naming the expected shape and the extension received.
C14_AcceptsExpectedShape ==
    call.fn = "validate_ext" =>
        LET e == call.args.test_ext
            accepted == result.exc = NoExc
        IN  IF call.model = "AZFP"
            THEN /\ accepted <=> C14_LegacyShape(e)
                 /\ e \in {<<".", "0", "1", "A">>, <<".", "9", "9", "z">>} => accepted
                 /\ e \in {<<".", "a", "d", "2", "c", "p">>, <<".", "1", "A">>,
                           <<".", "A", "0", "1">>} => ~accepted
                 /\ ~accepted =>
                       result.exc =
                           Exc("ValueError",
                               "Expecting a file in the form \".XXY\" where XX is a "
                                   \o "number and Y is a letter but got " \o Str(e))
            ELSE /\ accepted <=> C14_SameIgnoringCase(e, C14_FixedExt[call.model])
                 /\ C14_FixedExt[call.model] = <<".", "r", "a", "w">> =>
                       /\ e \in {<<".", "r", "a", "w">>, <<".", "R", "A", "W">>,
                                 <<".", "R", "a", "w">>} => accepted
                       /\ e \in {<<".", "r", "a", "w", "w">>, <<".", "r", "a">>} => ~accepted
                 /\ ~accepted =>
                       result.exc =
                           Exc("ValueError",
                               "Expecting a " \o Str(C14_FixedExt[call.model])
                                   \o " file but got " \o Str(e))

\* C14 witness: the AZFP validator rejected an extension that only starts
\* with a dot, two digits and a letter
C14_Witness ==
    /\ call.fn = "validate_ext" /\ call.model = "AZFP"
    /\ call.args.test_ext = <<".", "0", "1", "A", "z">>
    /\ result.exc.type = "ValueError"

\* the attributes the annotation stamps
C16_Stamped == {"waveform_mode", "encode_mode"}

\* C16: called on a dataset holding the calibrated variable, the annotation
\* registered for EK80 leaves the variable's waveform_mode and encode_mode
\* attributes equal to the modes passed in and its other attributes, its data
\* and the other variables unchanged; that of every other model leaves the
\* dataset unchanged.
C16_StampsOnlyBroadband ==
    (call.fn = "add_attrs_check" /\ call.args.cal_type \in DOMAIN call.args.ds) =>
        LET before == call.args.ds
            v == call.args.cal_type
        IN  /\ result.exc = NoExc
            /\ IF call.model = "EK80"
               THEN /\ DOMAIN cal_ds = DOMAIN before
                    /\ \A o \in DOMAIN before \ {v} : cal_ds[o] = before[o]
                    /\ cal_ds[v].data = before[v].data
                    /\ DOMAIN cal_ds[v].attrs = DOMAIN before[v].attrs \cup C16_Stamped
                    /\ cal_ds[v].attrs.waveform_mode = call.args.waveform_mode
                    /\ cal_ds[v].attrs.encode_mode = call.args.encode_mode
                    /\ \A k \in DOMAIN before[v].attrs \ C16_Stamped :
                          cal_ds[v].attrs[k] = before[v].attrs[k]
               ELSE cal_ds = before

\* C16 witness: EK80 stamped BB/complex over the CW/power an Sv carried
C16_Witness ==
    /\ call.fn = "add_attrs_check" /\ call.model = "EK80" /\ call.args.cal_type = "Sv"
    /\ "waveform_mode" \in DOMAIN call.args.ds.Sv.attrs
    /\ call.args.waveform_mode = "BB"
    /\ cal_ds.Sv.attrs.waveform_mode = "BB"
    /\ cal_ds.Sv.attrs.long_name = call.args.ds.Sv.attrs.long_name

====
